---- MODULE Spec2Model ----
(***************************************************************************)
(* A model of the sqllogictest runner: the record parser                   *)
(* (parser/record.go) and the run loop with its result verifier            *)
(* (go/logictest/runner.go).                                               *)
(*                                                                         *)
(* Go strings.  A string whose characters the code inspects one line at a  *)
(* time (a line of the test file, a query text, a result value) is a       *)
(* sequence of tokens; a token is a maximal run of characters other than   *)
(* ' ' and '#', or a single " " or a single "#".  A whitespace-separated   *)
(* field of a line (an engine, a schema, a sort mode) is one token.  Bytes *)
(* gives the bytes of a token, so that lengths, comparisons, regular       *)
(* expressions and number parsing are computed from the characters.        *)
(***************************************************************************)
EXTENDS Integers, Sequences, FiniteSets, TLC

\* The bytes of each token the model uses (UTF-8, as in a Go string).
Bytes(t) ==
    CASE t = "" -> <<>>
      [] t = " " -> <<32>>
      [] t = "#" -> <<35>>
      [] t = "halt" -> <<104, 97, 108, 116>>
      [] t = "skipif" -> <<115, 107, 105, 112, 105, 102>>
      [] t = "onlyif" -> <<111, 110, 108, 121, 105, 102>>
      [] t = "hash-threshold" -> <<104, 97, 115, 104, 45, 116, 104, 114, 101, 115, 104, 111, 108, 100>>
      [] t = "statement" -> <<115, 116, 97, 116, 101, 109, 101, 110, 116>>
      [] t = "query" -> <<113, 117, 101, 114, 121>>
      [] t = "ok" -> <<111, 107>>
      [] t = "error" -> <<101, 114, 114, 111, 114>>
      [] t = "nosort" -> <<110, 111, 115, 111, 114, 116>>
      [] t = "rowsort" -> <<114, 111, 119, 115, 111, 114, 116>>
      [] t = "valuesort" -> <<118, 97, 108, 117, 101, 115, 111, 114, 116>>
      [] t = "----" -> <<45, 45, 45, 45>>
      [] t = "SELECT" -> <<83, 69, 76, 69, 67, 84>>
      [] t = "c" -> <<99>>
      [] t = "mysql" -> <<109, 121, 115, 113, 108>>
      [] t = "oracle" -> <<111, 114, 97, 99, 108, 101>>
      [] t = "postgres" -> <<112, 111, 115, 116, 103, 114, 101, 115>>
      [] t = "I" -> <<73>>
      [] t = "R" -> <<82>>
      [] t = "T" -> <<84>>
      [] t = "II" -> <<73, 73>>
      [] t = "IR" -> <<73, 82>>
      [] t = "0" -> <<48>>
      [] t = "1" -> <<49>>
      [] t = "2" -> <<50>>
      [] t = "3" -> <<51>>
      [] t = "4" -> <<52>>
      [] t = "10" -> <<49, 48>>
      [] t = "16" -> <<49, 54>>
      [] t = "-1" -> <<45, 49>>
      [] t = "-5" -> <<45, 53>>
      [] t = "values" -> <<118, 97, 108, 117, 101, 115>>
      [] t = "hashing" -> <<104, 97, 115, 104, 105, 110, 103>>
      [] t = "to" -> <<116, 111>>
      [] t = "d41d8cd98f00b204e9800998ecf8427e" -> <<100, 52, 49, 100, 56, 99, 100, 57, 56, 102, 48, 48, 98, 50, 48, 52, 101, 57, 56, 48, 48, 57, 57, 56, 101, 99, 102, 56, 52, 50, 55, 101>>
      [] t = "b026324c6904b2a9cb4b88d6d61c81d1" -> <<98, 48, 50, 54, 51, 50, 52, 99, 54, 57, 48, 52, 98, 50, 97, 57, 99, 98, 52, 98, 56, 56, 100, 54, 100, 54, 49, 99, 56, 49, 100, 49>>
      [] t = "26ab0db90d72e28ad0ba1e22ee510510" -> <<50, 54, 97, 98, 48, 100, 98, 57, 48, 100, 55, 50, 101, 50, 56, 97, 100, 48, 98, 97, 49, 101, 50, 50, 101, 101, 53, 49, 48, 53, 49, 48>>
      [] t = "6ddb4095eb719e2a9f0a3f95677d24e0" -> <<54, 100, 100, 98, 52, 48, 57, 53, 101, 98, 55, 49, 57, 101, 50, 97, 57, 102, 48, 97, 51, 102, 57, 53, 54, 55, 55, 100, 50, 52, 101, 48>>
      [] t = "cb0e93933b5e2202825f38da7587cf07" -> <<99, 98, 48, 101, 57, 51, 57, 51, 51, 98, 53, 101, 50, 50, 48, 50, 56, 50, 53, 102, 51, 56, 100, 97, 55, 53, 56, 55, 99, 102, 48, 55>>
      [] t = "361619205d8fd52692717ea4890ccf94" -> <<51, 54, 49, 54, 49, 57, 50, 48, 53, 100, 56, 102, 100, 53, 50, 54, 57, 50, 55, 49, 55, 101, 97, 52, 56, 57, 48, 99, 99, 102, 57, 52>>
      [] t = "3aa075e16185615e8fe25b2487de8fa9" -> <<51, 97, 97, 48, 55, 53, 101, 49, 54, 49, 56, 53, 54, 49, 53, 101, 56, 102, 101, 50, 53, 98, 50, 52, 56, 55, 100, 101, 56, 102, 97, 57>>
      [] t = "8e1c9b1c8146b4a8cd1c7750a6f76d01" -> <<56, 101, 49, 99, 57, 98, 49, 99, 56, 49, 52, 54, 98, 52, 97, 56, 99, 100, 49, 99, 55, 55, 53, 48, 97, 54, 102, 55, 54, 100, 48, 49>>
      [] t = "79e9cc46dc6277643ac1f777438fddac" -> <<55, 57, 101, 57, 99, 99, 52, 54, 100, 99, 54, 50, 55, 55, 54, 52, 51, 97, 99, 49, 102, 55, 55, 55, 52, 51, 56, 102, 100, 100, 97, 99>>
      [] t = "34d6b33ae37a74755a94ad622f8f1d5c" -> <<51, 52, 100, 54, 98, 51, 51, 97, 101, 51, 55, 97, 55, 52, 55, 53, 53, 97, 57, 52, 97, 100, 54, 50, 50, 102, 56, 102, 49, 100, 53, 99>>
      [] t = "e1d9101663f4d7f4f2bd287e471fb7e4" -> <<101, 49, 100, 57, 49, 48, 49, 54, 54, 51, 102, 52, 100, 55, 102, 52, 102, 50, 98, 100, 50, 56, 55, 101, 52, 55, 49, 102, 98, 55, 101, 52>>

\* The bytes of a string: the bytes of its tokens, joined.
RECURSIVE StrBytes(_)
StrBytes(s) ==
    IF s = <<>> THEN <<>> ELSE Bytes(Head(s)) \o StrBytes(Tail(s))

\* Go's == on strings.
StringEq(a, b) == StrBytes(a) = StrBytes(b)

\* Go's < on strings: bytewise lexicographic order.
RECURSIVE BytesLess(_, _)
BytesLess(a, b) ==
    IF b = <<>> THEN FALSE
    ELSE IF a = <<>> THEN TRUE
    ELSE IF a[1] < b[1] THEN TRUE
    ELSE IF a[1] > b[1] THEN FALSE
    ELSE BytesLess(Tail(a), Tail(b))

StringLess(a, b) == BytesLess(StrBytes(a), StrBytes(b))

IsDigit(b) == b >= 48 /\ b <= 57

\* The token t is one or more bytes, each of the set S.
BytesIn(t, S) == Bytes(t) # <<>> /\ \A k \in 1..Len(Bytes(t)) : Bytes(t)[k] \in S

\* \d+ and [0-9a-f]+ on a whole token.
IsNumber(t) == BytesIn(t, 48..57)

IsHex(t) == BytesIn(t, (48..57) \cup (97..102))

RECURSIVE DigitsValue(_, _)
DigitsValue(bs, acc) ==
    IF bs = <<>> THEN acc ELSE DigitsValue(Tail(bs), acc * 10 + (Head(bs) - 48))

\* strconv.Atoi on the bytes of a string: an optional sign and decimal digits;
\* anything else is an error, and the number returned with an error is 0.
Atoi(bs) ==
    LET signed == bs # <<>> /\ bs[1] \in {43, 45}
        ds     == IF signed THEN Tail(bs) ELSE bs
        bad    == ds = <<>> \/ \E i \in 1..Len(ds) : ~IsDigit(ds[i])
    IN  IF bad THEN [n |-> 0, err |-> TRUE]
        ELSE [n |-> IF bs[1] = 45 THEN 0 - DigitsValue(ds, 0) ELSE DigitsValue(ds, 0),
              err |-> FALSE]

(***************************************************************************)
(* Records (parser/record.go).                                             *)
(***************************************************************************)
Statement == "Statement"
Query == "Query"
Halt == "Halt"

NoSort == "nosort"
Rowsort == "rowsort"
ValueSort == "valuesort"

\* A nil *Record.
NoRecord == [recordType |-> "nil"]

\* A Condition value.
Condition(only, skip, eng) == [isOnly |-> only, isSkip |-> skip, engine |-> eng]

\* The loop of ShouldExecuteForEngine over the conditions from index i on.
RECURSIVE skipLoop(_, _, _)
skipLoop(conditions, i, eng) ==
    IF i > Len(conditions) THEN TRUE
    ELSE IF conditions[i].isSkip /\ conditions[i].engine = eng THEN FALSE
    ELSE skipLoop(conditions, i + 1, eng)

ShouldExecuteForEngine_ignoreSkip(r, eng) ==
    IF Len(r.conditions) = 1 /\ r.conditions[1].isOnly
    THEN r.conditions[1].engine = eng
    ELSE TRUE

ShouldExecuteForEngine_anyOnly(r, eng) ==
    IF \E i \in 1..Len(r.conditions) : r.conditions[i].isOnly
    THEN \E i \in 1..Len(r.conditions) :
            r.conditions[i].isOnly /\ r.conditions[i].engine = eng
    ELSE skipLoop(r.conditions, 1, eng)

\* Whether record r is executed for the engine with identifier eng.
ShouldExecuteForEngine(r, eng) ==
    IF Len(r.conditions) = 1 /\ r.conditions[1].isOnly
    THEN r.conditions[1].engine = eng
    ELSE skipLoop(r.conditions, 1, eng)

\* hashRegex, "(\d+) values hashing to ([0-9a-f]+)", on a string of tokens:
\* the positions where a match starts.  The number and the digest are whole
\* tokens here.
hashRegexMatches(s) ==
    {i \in 1..Len(s) :
        /\ i + 8 <= Len(s)
        /\ IsNumber(s[i])
        /\ SubSeq(s, i + 1, i + 7) = <<" ", "values", " ", "hashing", " ", "to", " ">>
        /\ IsHex(s[i + 8])}

\* hashRegex.ReplaceAllString(s, "$<group>"): the leftmost match is replaced
\* by its group 1 (the number) or 2 (the digest), the rest of s is kept.
hashRegexReplace(s, group) ==
    IF hashRegexMatches(s) = {} THEN s
    ELSE LET i == CHOOSE m \in hashRegexMatches(s) :
                     \A o \in hashRegexMatches(s) : m <= o
         IN  SubSeq(s, 1, i - 1)
             \o << IF group = 1 THEN s[i] ELSE s[i + 8] >>
             \o SubSeq(s, i + 9, Len(s))

IsHashResult(r) == Len(r.result) = 1 /\ hashRegexMatches(r.result[1]) # {}

HashResult(r) == hashRegexReplace(r.result[1], 2)

\* The number of expected values of a query record.
NumResults(r) ==
    IF IsHashResult(r)
    THEN Atoi(StrBytes(hashRegexReplace(r.result[1], 1))).n
    ELSE Len(r.result)

NumCols(r) == Len(Bytes(r.schema))

\* rowSorter.Less on two rows.
RECURSIVE rowLess(_, _)
rowLess(rowI, rowJ) ==
    IF rowI = <<>> THEN FALSE
    ELSE IF StringLess(rowI[1], rowJ[1]) THEN TRUE
    ELSE IF StringLess(rowJ[1], rowI[1]) THEN FALSE
    ELSE rowLess(Tail(rowI), Tail(rowJ))

\* sort.Sort: the rows in non-decreasing order of rowLess.  Rows that compare
\* equal are equal column by column, so the order is the only one there is.
RECURSIVE insertRow(_, _)
insertRow(row, sorted) ==
    IF sorted = <<>> THEN <<row>>
    ELSE IF rowLess(row, Head(sorted)) THEN <<row>> \o sorted
    ELSE <<Head(sorted)>> \o insertRow(row, Tail(sorted))

RECURSIVE sortRows(_)
sortRows(rows) ==
    IF rows = <<>> THEN <<>> ELSE insertRow(Head(rows), sortRows(Tail(rows)))

\* rowSorter.toRow for each of the rowSorter.Len() = len(values) / width rows.
toRows(values, width) ==
    [i \in 1..(Len(values) \div width) |->
        SubSeq(values, (i - 1) * width + 1, i * width)]

RECURSIVE flatten(_)
flatten(rows) ==
    IF rows = <<>> THEN <<>> ELSE Head(rows) \o flatten(Tail(rows))

\* The slice after sorting whole rows of the given width in place: the values
\* past the last whole row stay where they are.
sortByRows(values, width) ==
    flatten(sortRows(toRows(values, width)))
    \o SubSeq(values, (Len(values) \div width) * width + 1, Len(values))

SortResults_valuesForRows(r, results) ==
    IF r.sortMode = NoSort THEN [panic |-> FALSE, values |-> results]
    ELSE IF r.sortMode \in {Rowsort, ValueSort}
    THEN [panic |-> FALSE, values |-> sortByRows(results, 1)]
    ELSE [panic |-> TRUE, values |-> results]

\* SortResults: [panic |-> a fault was raised, values |-> the sorted slice].
SortResults(r, results) ==
    IF r.sortMode = NoSort THEN [panic |-> FALSE, values |-> results]
    ELSE IF r.sortMode = Rowsort
    THEN IF NumCols(r) = 0
         THEN [panic |-> TRUE, values |-> results]
         ELSE [panic |-> FALSE, values |-> sortByRows(results, NumCols(r))]
    ELSE IF r.sortMode = ValueSort
    THEN [panic |-> FALSE, values |-> sortByRows(results, 1)]
    ELSE [panic |-> TRUE, values |-> results]

(***************************************************************************)
(* The result verifier (go/logictest/runner.go).  A log line is            *)
(* [line |-> "ok" | "not ok" | "skipped", msg |-> the failure's format];   *)
(* a verification step returns the lines it logged and whether it raised   *)
(* a fault: [logs |-> ..., panic |-> ...].                                 *)
(***************************************************************************)
logSuccess == [line |-> "ok", msg |-> "", pos |-> 0]

logSkip == [line |-> "skipped", msg |-> "", pos |-> 0]

logFailure(message) == [line |-> "not ok", msg |-> message, pos |-> 0]

logFailureAt(message, position) == [line |-> "not ok", msg |-> message, pos |-> position]

\* crypto/md5 of the bytes written, in lowercase hexadecimal, for the byte
\* strings the model's result values produce.
md5Sum(data) ==
    CASE data = <<>> -> "d41d8cd98f00b204e9800998ecf8427e"
      [] data = <<49, 10>> -> "b026324c6904b2a9cb4b88d6d61c81d1"
      [] data = <<50, 10>> -> "26ab0db90d72e28ad0ba1e22ee510510"
      [] data = <<49, 10, 50, 10>> -> "6ddb4095eb719e2a9f0a3f95677d24e0"
      [] data = <<50, 10, 49, 10>> -> "cb0e93933b5e2202825f38da7587cf07"
      [] data = <<49, 10, 49, 10, 50, 10, 50, 10>> -> "361619205d8fd52692717ea4890ccf94"
      [] data = <<49, 10, 50, 10, 49, 10, 50, 10>> -> "3aa075e16185615e8fe25b2487de8fa9"
      [] data = <<49, 10, 50, 10, 50, 10, 49, 10>> -> "8e1c9b1c8146b4a8cd1c7750a6f76d01"
      [] data = <<50, 10, 49, 10, 49, 10, 50, 10>> -> "79e9cc46dc6277643ac1f777438fddac"
      [] data = <<50, 10, 49, 10, 50, 10, 49, 10>> -> "34d6b33ae37a74755a94ad622f8f1d5c"
      [] data = <<50, 10, 50, 10, 49, 10, 49, 10>> -> "e1d9101663f4d7f4f2bd287e471fb7e4"

RECURSIVE hashInput(_)
hashInput(results) ==
    IF results = <<>> THEN <<>>
    ELSE StrBytes(Head(results)) \o <<10>> \o hashInput(Tail(results))

\* Each value followed by a newline, through md5.
hashResults(results) == md5Sum(hashInput(results))

\* The regular expressions ^I+$ and ^[IR]+$.
allIs(t) == BytesIn(t, {73})

isAndRs(t) == BytesIn(t, {73, 82})

verifySchema_exact(r, schemaStr) ==
    IF schemaStr # r.schema
    THEN [ok |-> FALSE, logs |-> <<logFailure("Schemas differ")>>]
    ELSE [ok |-> TRUE, logs |-> <<>>]

\* Whether the observed schema matches the record's, and the line logged if not.
verifySchema(r, schemaStr) ==
    IF schemaStr # r.schema
    THEN IF /\ Len(Bytes(schemaStr)) = Len(Bytes(r.schema))
            /\ NumResults(r) = 0
            /\ allIs(r.schema)
            /\ isAndRs(schemaStr)
         THEN [ok |-> TRUE, logs |-> <<>>]
         ELSE [ok |-> FALSE, logs |-> <<logFailure("Schemas differ")>>]
    ELSE [ok |-> TRUE, logs |-> <<>>]

\* The comparison loop of verifyRows from index i (1-based) on.
RECURSIVE verifyRowsLoop(_, _, _)
verifyRowsLoop(expected, results, i) ==
    IF i > Len(expected) THEN [logs |-> <<logSuccess>>, panic |-> FALSE]
    ELSE IF i > Len(results) THEN [logs |-> <<>>, panic |-> TRUE]
    ELSE IF ~StringEq(expected[i], results[i])
    THEN [logs |-> <<logFailureAt("Incorrect result at position", i - 1)>>,
          panic |-> FALSE]
    ELSE verifyRowsLoop(expected, results, i + 1)

verifyRows_unsorted(r, results) == verifyRowsLoop(r.result, results, 1)

verifyRows(r, results) ==
    LET sorted == SortResults(r, results)
    IN  IF sorted.panic THEN [logs |-> <<>>, panic |-> TRUE]
        ELSE verifyRowsLoop(r.result, sorted.values, 1)

verifyHash_unsorted(r, results) ==
    IF StrBytes(HashResult(r)) # Bytes(hashResults(results))
    THEN [logs |-> <<logFailure("Hash of results differ")>>, panic |-> FALSE]
    ELSE [logs |-> <<logSuccess>>, panic |-> FALSE]

verifyHash(r, results) ==
    LET sorted == SortResults(r, results)
    IN  IF sorted.panic THEN [logs |-> <<>>, panic |-> TRUE]
        ELSE IF StrBytes(HashResult(r)) # Bytes(hashResults(sorted.values))
        THEN [logs |-> <<logFailure("Hash of results differ")>>, panic |-> FALSE]
        ELSE [logs |-> <<logSuccess>>, panic |-> FALSE]

verifyResults_byThreshold(r, results) ==
    IF Len(results) # NumResults(r)
    THEN [logs |-> <<logFailure("Incorrect number of results")>>, panic |-> FALSE]
    ELSE IF Len(results) > r.hashThreshold THEN verifyHash(r, results)
    ELSE verifyRows(r, results)

verifyResults(r, results) ==
    IF Len(results) # NumResults(r)
    THEN [logs |-> <<logFailure("Incorrect number of results")>>, panic |-> FALSE]
    ELSE IF IsHashResult(r) THEN verifyHash(r, results)
    ELSE verifyRows(r, results)

(***************************************************************************)
(* executeRecord.  The harness answers a call with                         *)
(* [kind |-> "ok" | "err" | "panic"] (ExecuteStatement) or with            *)
(* [kind |-> "rows" | "err" | "panic", schema, results] (ExecuteQuery).    *)
(* The value of executeRecord is what the call did: the lines logged, the  *)
(* harness calls made, the cont result and whether a fault was recovered.  *)
(***************************************************************************)
Return(lines, called, c) ==
    [logs |-> lines, calls |-> called, cont |-> c, recovered |-> FALSE]

recoverPanic_stop(lines, called) ==
    [logs |-> lines \o <<logFailure("Caught panic")>>, calls |-> called,
     cont |-> FALSE, recovered |-> TRUE]

\* The deferred function after a panic: one failure line, and cont = true.
recoverPanic(lines, called) ==
    [logs |-> lines \o <<logFailure("Caught panic")>>, calls |-> called,
     cont |-> TRUE, recovered |-> TRUE]

\* The record is not for this engine.
skipRecord(r) ==
    Return(IF r.recordType \in {Query, Statement} THEN <<logSkip>> ELSE <<>>,
           <<>>, FALSE)

executeStatement_ignoreExpect(r, b) ==
    IF b.kind = "panic" THEN recoverPanic(<<>>, <<"ExecuteStatement">>)
    ELSE IF b.kind = "err"
    THEN Return(<<logFailure("Unexpected error")>>, <<"ExecuteStatement">>, TRUE)
    ELSE Return(<<logSuccess>>, <<"ExecuteStatement">>, TRUE)

\* case parser.Statement
executeStatement(r, b) ==
    IF b.kind = "panic" THEN recoverPanic(<<>>, <<"ExecuteStatement">>)
    ELSE IF r.expectError /\ b.kind = "ok"
    THEN Return(<<logFailure("Expected error but didn't get one")>>,
                <<"ExecuteStatement">>, TRUE)
    ELSE IF ~r.expectError /\ b.kind = "err"
    THEN Return(<<logFailure("Unexpected error")>>, <<"ExecuteStatement">>, TRUE)
    ELSE Return(<<logSuccess>>, <<"ExecuteStatement">>, TRUE)

executeQuery_countFirst(r, b) ==
    IF b.kind = "panic" THEN recoverPanic(<<>>, <<"ExecuteQuery">>)
    ELSE IF b.kind = "err"
    THEN Return(<<logFailure("Unexpected error")>>, <<"ExecuteQuery">>, TRUE)
    ELSE IF Len(b.results) # NumResults(r)
    THEN Return(<<logFailure("Incorrect number of results")>>, <<"ExecuteQuery">>, TRUE)
    ELSE LET schemaOk == verifySchema(r, b.schema)
             verified == verifyResults(r, b.results)
         IN  IF ~schemaOk.ok THEN Return(schemaOk.logs, <<"ExecuteQuery">>, TRUE)
             ELSE IF verified.panic
             THEN recoverPanic(verified.logs, <<"ExecuteQuery">>)
             ELSE Return(verified.logs, <<"ExecuteQuery">>, TRUE)

executeQuery_logBoth(r, b) ==
    IF b.kind = "panic" THEN recoverPanic(<<>>, <<"ExecuteQuery">>)
    ELSE IF b.kind = "err"
    THEN Return(<<logFailure("Unexpected error")>>, <<"ExecuteQuery">>, TRUE)
    ELSE LET schemaOk == verifySchema(r, b.schema)
             verified == verifyResults(r, b.results)
         IN  IF verified.panic
             THEN recoverPanic(schemaOk.logs \o verified.logs, <<"ExecuteQuery">>)
             ELSE Return(schemaOk.logs \o verified.logs, <<"ExecuteQuery">>, TRUE)

\* case parser.Query
executeQuery(r, b) ==
    IF b.kind = "panic" THEN recoverPanic(<<>>, <<"ExecuteQuery">>)
    ELSE IF b.kind = "err"
    THEN Return(<<logFailure("Unexpected error")>>, <<"ExecuteQuery">>, TRUE)
    ELSE LET schemaOk == verifySchema(r, b.schema)
             verified == verifyResults(r, b.results)
         IN  IF ~schemaOk.ok THEN Return(schemaOk.logs, <<"ExecuteQuery">>, TRUE)
             ELSE IF verified.panic
             THEN recoverPanic(schemaOk.logs \o verified.logs, <<"ExecuteQuery">>)
             ELSE Return(schemaOk.logs \o verified.logs, <<"ExecuteQuery">>, TRUE)

haltRecord_continue == Return(<<>>, <<>>, TRUE)

haltRecord == Return(<<>>, <<>>, FALSE)

executeRecord_noSkip(r, eng, b) ==
    IF r.recordType = Statement THEN executeStatement(r, b)
    ELSE IF r.recordType = Query THEN executeQuery(r, b)
    ELSE IF r.recordType = Halt THEN haltRecord
    ELSE recoverPanic(<<>>, <<>>)

\* One record against the harness whose engine identifier is eng and whose
\* answer to the call, if one is made, is b.
executeRecord(r, eng, b) ==
    IF ~ShouldExecuteForEngine(r, eng) THEN skipRecord(r)
    ELSE IF r.recordType = Statement THEN executeStatement(r, b)
    ELSE IF r.recordType = Query THEN executeQuery(r, b)
    ELSE IF r.recordType = Halt THEN haltRecord
    ELSE recoverPanic(<<>>, <<>>)

(***************************************************************************)
(* The record parser (parser/record.go, ParseTestFile and parseRecord).    *)
(***************************************************************************)
Separator == "----"

defaultHashThreshold == 8

hashThresholdUnset == -1

stateStart == "stateStart"
stateStatement == "stateStatement"
stateQuery == "stateQuery"
stateResults == "stateResults"

\* &Record{hashThreshold: hashThresholdUnset}: every other field is zero.
newRecord ==
    [recordType |-> Statement, expectError |-> FALSE, conditions |-> <<>>,
     schema |-> "", sortMode |-> "", query |-> <<>>, lineNum |-> 0,
     result |-> <<>>, label |-> "", hashThreshold |-> hashThresholdUnset]

\* LineScanner.Scan on a line read: the 1-based count of the lines read.
nextLineNum(n) == n + 1

\* len(strings.TrimSpace(line)) == 0
isBlankLine(line) == \A k \in 1..Len(line) : line[k] = " "

\* commentRegex.ReplaceAllString(line, "$1"): the line up to its first '#'.
RECURSIVE commentsRemoved(_)
commentsRemoved(line) ==
    IF line = <<>> \/ Head(line) = "#" THEN <<>>
    ELSE <<Head(line)>> \o commentsRemoved(Tail(line))

\* strings.HasPrefix(line, "#")
isCommentLine(line) == line # <<>> /\ line[1] = "#"

\* strings.Fields: the whitespace-separated words.
Fields(s) == SelectSeq(s, LAMBDA t : t # " ")

\* What one pass of parseRecord's loop leaves: the record, the state, the
\* builder, and ret: "continue" (scan on), "record" (return record, nil),
\* "error" (return nil, err) or "panic" (an index out of range).
Pass(r, st, qb, how) == [record |-> r, state |-> st, queryBuilder |-> qb, ret |-> how]

\* The nil error.
nilError == [msg |-> "", token |-> "", line |-> 0]

unhandledStatement_noLine(token, lineNo) ==
    [msg |-> "Unhandled statement", token |-> token, line |-> 0]

\* fmt.Errorf("Unhandled statement %s on line %d", fields[0], scanner.LineNum):
\* the text, the token and the line number the message is formatted from.
unhandledStatement(token, lineNo) ==
    [msg |-> "Unhandled statement", token |-> token, line |-> lineNo]

\* errors.New("unexpected token " + fields[1]): a message without a line
\* number (line 0).
unexpectedToken(token) == [msg |-> "unexpected token", token |-> token, line |-> 0]

\* return nil, e
Fail(r, st, qb, e) ==
    [record |-> r, state |-> st, queryBuilder |-> qb, ret |-> "error", err |-> e]

withLineNum_always(r, lineNo) == [r EXCEPT !.lineNum = lineNo]

\* if record.lineNum == 0 { record.lineNum = scanner.LineNum }
withLineNum(r, lineNo) == IF r.lineNum = 0 THEN [r EXCEPT !.lineNum = lineNo] ELSE r

\* case halt
parseHalt(r, qb, lineNo) ==
    Pass([r EXCEPT !.recordType = Halt, !.lineNum = lineNo], stateStart, qb, "record")

\* The switch on fields[0] in stateStart.
parseDirective(r, qb, fields, lineNo) ==
    IF fields[1] = "halt" THEN parseHalt(r, qb, lineNo)
    ELSE IF fields[1] \in {"skipif", "onlyif"}
    THEN IF Len(fields) < 2 THEN Pass(r, stateStart, qb, "panic")
         ELSE Pass([r EXCEPT !.conditions =
                        Append(@, Condition(fields[1] = "onlyif",
                                            fields[1] = "skipif", fields[2]))],
                   stateStart, qb, "continue")
    ELSE IF fields[1] = "hash-threshold"
    THEN IF Len(fields) < 2 THEN Pass(r, stateStart, qb, "panic")
         ELSE Pass([r EXCEPT !.hashThreshold = Atoi(Bytes(fields[2])).n],
                   stateStart, qb, "continue")
    ELSE IF fields[1] = "statement"
    THEN IF Len(fields) < 2 THEN Pass(r, stateStart, qb, "panic")
         ELSE IF fields[2] = "ok"
         THEN Pass([r EXCEPT !.recordType = Statement, !.expectError = FALSE],
                   stateStatement, qb, "continue")
         ELSE IF fields[2] = "error"
         THEN Pass([r EXCEPT !.recordType = Statement, !.expectError = TRUE],
                   stateStatement, qb, "continue")
         ELSE Fail(r, stateStart, qb, unexpectedToken(fields[2]))
    ELSE IF fields[1] = "query"
    THEN IF Len(fields) < 2 THEN Pass(r, stateStart, qb, "panic")
         ELSE Pass([r EXCEPT !.recordType = Query,
                             !.schema = fields[2],
                             !.sortMode = IF Len(fields) > 2 THEN fields[3] ELSE @,
                             !.label = IF Len(fields) > 3 THEN fields[4] ELSE @],
                   stateQuery, qb, "continue")
    ELSE Fail(r, stateStart, qb, unhandledStatement(fields[1], lineNo))

parseSeparator_inText(r, qb, stripped, lineNo) ==
    Pass([withLineNum(r, lineNo) EXCEPT !.query = qb \o stripped],
         stateResults, qb \o stripped, "continue")

\* The separator line in stateQuery: the query is what the builder holds, and
\* the line is written to the builder after that.
parseSeparator(r, qb, stripped, lineNo) ==
    Pass([withLineNum(r, lineNo) EXCEPT !.query = qb],
         stateResults, qb \o stripped, "continue")

\* The body of parseRecord's loop for one scanned line.
parseLine(r, st, qb, line, lineNo) ==
    LET stripped == commentsRemoved(line)
        fields   == Fields(stripped)
    IN  IF isCommentLine(line) THEN Pass(r, st, qb, "continue")
        ELSE IF st = stateStart
        THEN IF isBlankLine(line) THEN Pass(r, st, qb, "continue")
             ELSE IF fields = <<>> THEN Pass(r, st, qb, "panic")
             ELSE parseDirective(r, qb, fields, lineNo)
        ELSE IF st = stateStatement
        THEN IF isBlankLine(line) THEN Pass([r EXCEPT !.query = qb], st, qb, "record")
             ELSE Pass(withLineNum(r, lineNo), st, qb \o stripped, "continue")
        ELSE IF st = stateQuery
        THEN IF Len(fields) = 1 /\ fields[1] = Separator
             THEN parseSeparator(r, qb, stripped, lineNo)
             ELSE IF isBlankLine(line)
             THEN Pass([withLineNum(r, lineNo) EXCEPT !.query = qb], st, qb, "record")
             ELSE Pass(withLineNum(r, lineNo), st, qb \o stripped, "continue")
        ELSE IF isBlankLine(line) THEN Pass(r, st, qb, "record")
             ELSE Pass([r EXCEPT !.result = Append(@, stripped)], st, qb, "continue")

parseEnd_keepAll(r, st, qb) ==
    Pass(IF st = stateStatement THEN [r EXCEPT !.query = qb] ELSE r, st, qb, "record")

\* parseRecord after scanner.Scan() has returned false, with no scanner error:
\* io.EOF ("eof") when no line of a body was read, the record otherwise.
parseEnd(r, st, qb) ==
    IF r.lineNum = 0 THEN Pass(r, st, qb, "eof")
    ELSE Pass(IF st = stateStatement THEN [r EXCEPT !.query = qb] ELSE r,
              st, qb, "record")

resolveHashThreshold_noCarry(r, prev) ==
    IF r.hashThreshold = hashThresholdUnset
    THEN [r EXCEPT !.hashThreshold = defaultHashThreshold]
    ELSE r

\* ParseTestFile on a record parseRecord returned: an unset hash threshold
\* becomes the previous record's, or the default when there is none.
resolveHashThreshold(r, prev) ==
    IF r.hashThreshold = hashThresholdUnset
    THEN IF prev # NoRecord
         THEN [r EXCEPT !.hashThreshold = prev.hashThreshold]
         ELSE [r EXCEPT !.hashThreshold = defaultHashThreshold]
    ELSE r

(***************************************************************************)
(* State.                                                                  *)
(*   runTestFile: testRecords (the records ParseTestFile returned), engine *)
(*   (harness.EngineStr()), idx (the records the loop has taken), cont     *)
(*   (the last call's cont result), rpc (where runTestFile is), currRecord *)
(*   (the package variable), and what the run did so far: log (the lines   *)
(*   printed, each with the index of its record), calls (the harness calls *)
(*   made), answers (what the harness answered), eligible (the value of    *)
(*   ShouldExecuteForEngine for each record taken), recovered (the records *)
(*   whose fault was recovered).                                           *)
(*   ParseTestFile: LineNum (scanner.LineNum), record, state, queryBuilder *)
(*   (parseRecord's locals), prevRecord, records (ParseTestFile's locals), *)
(*   parsed (the records ParseTestFile returns), ppc (where ParseTestFile  *)
(*   is: "parsing", "done", "error", "panic"), parseErr (the error it      *)
(*   returns), and the file read so far:                                   *)
(*   input (its lines), lineState (the state each line was read in),       *)
(*   emittedAt (for each record, the lines read when it was returned).     *)
(*   A call of Record.SortResults: sortRecord (the receiver), sortValues   *)
(*   (the slice as it was passed), sortReturned (the slice returned), spc  *)
(*   (where the call is: "call", "done", "panic").                         *)
(***************************************************************************)
VARIABLES testRecords, engine, idx, cont, rpc, currRecord,
          log, calls, answers, eligible, recovered,
          LineNum, record, state, queryBuilder, prevRecord, records,
          parsed, ppc, parseErr, input, lineState, emittedAt,
          sortRecord, sortValues, sortReturned, spc

runVars == <<testRecords, engine, idx, cont, rpc, currRecord,
             log, calls, answers, eligible, recovered>>

parseVars == <<LineNum, record, state, queryBuilder, prevRecord, records,
               parsed, ppc, parseErr, input, lineState, emittedAt>>

sortVars == <<sortRecord, sortValues, sortReturned, spc>>

vars == <<runVars, parseVars, sortVars>>

\* Bounds of the model.
MaxRecords == 2
MaxConds == 2
MaxLines == 5
MaxValues == 4

\* The sequences over S of length at most n.
SeqsUpTo(S, n) == UNION {[1..k -> S] : k \in 0..n}

\* A record as the parser builds it for a one-line body "SELECT".
Rec(type, expectErr, conds, schemaTok, sortTok, expected) ==
    [recordType |-> type, expectError |-> expectErr, conditions |-> conds,
     schema |-> schemaTok, sortMode |-> sortTok,
     query |-> IF type = Halt THEN <<>> ELSE <<"SELECT">>,
     lineNum |-> IF type = Halt THEN 1 ELSE 2,
     result |-> expected, label |-> "", hashThreshold |-> 8]

\* No harness call was made for a record.
NoAnswer == [kind |-> "none"]

Engines == {"mysql", "oracle", "postgres"}

CondLists == SeqsUpTo({Condition(o, ~o, e) : o \in BOOLEAN, e \in Engines}, MaxConds)

SkipMysql == <<Condition(FALSE, TRUE, "mysql")>>

OnlyMysql == <<Condition(TRUE, FALSE, "mysql")>>

HashOf0 == <<"0", " ", "values", " ", "hashing", " ", "to", " ",
             "d41d8cd98f00b204e9800998ecf8427e">>

HashOf1 == <<"1", " ", "values", " ", "hashing", " ", "to", " ",
             "b026324c6904b2a9cb4b88d6d61c81d1">>

HashOf2 == <<"1", " ", "values", " ", "hashing", " ", "to", " ",
             "26ab0db90d72e28ad0ba1e22ee510510">>

HashOf12 == <<"2", " ", "values", " ", "hashing", " ", "to", " ",
              "6ddb4095eb719e2a9f0a3f95677d24e0">>

HashOf1221 == <<"4", " ", "values", " ", "hashing", " ", "to", " ",
                "8e1c9b1c8146b4a8cd1c7750a6f76d01">>

HashOf1122 == <<"4", " ", "values", " ", "hashing", " ", "to", " ",
                "361619205d8fd52692717ea4890ccf94">>

\* The records of the run loop's files: statements and a query, with and
\* without a skipif for mysql, a query whose directive names no sort mode, and
\* a halt with and without an onlyif for mysql.
RunRecords ==
    {Rec(Statement, x, c, "", "", <<>>) : x \in BOOLEAN, c \in {<<>>, SkipMysql}}
    \cup {Rec(Query, FALSE, c, "I", NoSort, << <<"1">> >>) : c \in {<<>>, SkipMysql}}
    \cup {Rec(Query, FALSE, <<>>, "I", "", << <<"1">> >>)}
    \cup {Rec(Halt, FALSE, c, "", "", <<>>) : c \in {<<>>, OnlyMysql}}

\* Statements under every condition list of at most MaxConds conditions.
EligibleRecords == {Rec(Statement, FALSE, c, "", "", <<>>) : c \in CondLists}

\* Query records of one and two columns, each sort mode, with literal and
\* with hashed expected results of up to four values, under a hash threshold
\* of 1 and of 8.
VerifyRecords ==
    {[Rec(Query, FALSE, <<>>, s, m, e) EXCEPT !.hashThreshold = h] :
        s \in {"I", "II"}, m \in {NoSort, Rowsort, ValueSort},
        e \in {<<>>, << <<"1">> >>, << <<"2">> >>, << <<"1">>, <<"2">> >>,
               << <<"2">>, <<"2">> >>, <<HashOf0>>, <<HashOf1>>, <<HashOf2>>, <<HashOf12>>,
               <<HashOf1221>>, <<HashOf1122>>},
        h \in {1, defaultHashThreshold}}

StatementAnswers == {[kind |-> k] : k \in {"ok", "err", "panic"}}

\* The answers of ExecuteQuery: an error, a fault, or a schema with values:
\* up to two values under each schema, and two rows of two columns.
QueryAnswers ==
    {[kind |-> "err"], [kind |-> "panic"]}
    \cup {[kind |-> "rows", schema |-> s, results |-> v] :
            s \in {"I", "R", "T", "II", "IR"},
            v \in {<<>>, << <<"1">> >>, << <<"1">>, <<"2">> >>, << <<"2">>, <<"1">> >>}}
    \cup {[kind |-> "rows", schema |-> "II", results |-> v] :
            v \in {<< <<"2">>, <<"1">>, <<"1">>, <<"2">> >>,
                   << <<"1">>, <<"2">>, <<"2">>, <<"1">> >>}}

\* What the harness may answer when called for record r.
Answers(r) ==
    IF r.recordType = Statement THEN StatementAnswers
    ELSE IF r.recordType = Query
    THEN QueryAnswers
    ELSE {NoAnswer}

(***************************************************************************)
(* Initial states.                                                         *)
(***************************************************************************)
\* The lines of a file of directives: blank, halt, hash-threshold with a
\* positive and two negative integers, a statement and a query directive, a
\* body line and a comment line.
FileLines ==
    { <<>>,
      <<"halt">>,
      <<"hash-threshold", " ", "16">>,
      <<"hash-threshold", " ", "-1">>,
      <<"hash-threshold", " ", "-5">>,
      <<"statement", " ", "ok">>,
      <<"query", " ", "I", " ", "nosort">>,
      <<"SELECT">>,
      <<"#", "c">> }

ParseInit ==
    /\ input = <<>>
    /\ lineState = <<>>
    /\ emittedAt = <<>>
    /\ LineNum = 0
    /\ state = stateStart
    /\ record = newRecord
    /\ queryBuilder = <<>>
    /\ prevRecord = NoRecord
    /\ records = <<>>
    /\ parsed = <<>>
    /\ parseErr = nilError
    /\ ppc = "parsing"

\* ParseTestFile is not running.
ParseIdle ==
    /\ input = <<>>
    /\ lineState = <<>>
    /\ emittedAt = <<>>
    /\ LineNum = 0
    /\ state = stateStart
    /\ record = newRecord
    /\ queryBuilder = <<>>
    /\ prevRecord = NoRecord
    /\ records = <<>>
    /\ parsed = <<>>
    /\ parseErr = nilError
    /\ ppc = "idle"

\* runTestFile is not running.
RunIdle ==
    /\ testRecords = <<>>
    /\ engine = "postgres"
    /\ idx = 0
    /\ cont = TRUE
    /\ rpc = "idle"
    /\ currRecord = NoRecord
    /\ log = <<>>
    /\ calls = <<>>
    /\ answers = <<>>
    /\ eligible = <<>>
    /\ recovered = {}

\* No call of SortResults from outside the verifier is under way.
SortIdle ==
    /\ sortRecord = NoRecord
    /\ sortValues = <<>>
    /\ sortReturned = <<>>
    /\ spc = "idle"

\* runTestFile after ParseTestFile has returned one of recordLists, for a
\* harness whose engine identifier is one of engines.
RunInit(recordLists, engines) ==
    /\ ParseIdle
    /\ SortIdle
    /\ testRecords \in recordLists
    /\ engine \in engines
    /\ idx = 0
    /\ cont = TRUE
    /\ rpc = "loop"
    /\ currRecord = NoRecord
    /\ log = <<>>
    /\ calls = <<>>
    /\ answers = <<>>
    /\ eligible = <<>>
    /\ recovered = {}

(***************************************************************************)
(* runTestFile's loop over the records.                                    *)
(***************************************************************************)
\* One iteration of runTestFile's loop: executeRecord on the next record, and
\* the break when it says not to continue.
ExecuteRecord ==
    /\ rpc = "loop"
    /\ idx < Len(testRecords)
    /\ \E b \in Answers(testRecords[idx + 1]) :
         LET r   == testRecords[idx + 1]
             out == executeRecord(r, engine, b)
         IN  /\ currRecord' = r
             /\ idx' = idx + 1
             /\ cont' = out.cont
             /\ rpc' = IF out.cont THEN "loop" ELSE "done"
             /\ log' = log \o [k \in 1..Len(out.logs) |->
                                 [rec |-> idx + 1, line |-> out.logs[k].line,
                                  msg |-> out.logs[k].msg, pos |-> out.logs[k].pos]]
             /\ calls' = calls \o [k \in 1..Len(out.calls) |->
                                     [rec |-> idx + 1, op |-> out.calls[k]]]
             /\ answers' = Append(answers, IF out.calls = <<>> THEN NoAnswer ELSE b)
             /\ eligible' = Append(eligible, ShouldExecuteForEngine(r, engine))
             /\ recovered' = IF out.recovered THEN recovered \cup {idx + 1} ELSE recovered
    /\ UNCHANGED <<testRecords, engine>>
    /\ UNCHANGED <<parseVars, sortVars>>

\* The range over testRecords is exhausted.
LoopEnd ==
    /\ rpc = "loop"
    /\ idx = Len(testRecords)
    /\ rpc' = "done"
    /\ UNCHANGED <<testRecords, engine, idx, cont, currRecord,
                   log, calls, answers, eligible, recovered>>
    /\ UNCHANGED <<parseVars, sortVars>>

RunNext == ExecuteRecord \/ LoopEnd

Init == RunInit(SeqsUpTo(RunRecords, MaxRecords), {"mysql", "postgres"})

\* The run loop over files of at most MaxRecords records.
Spec == Init /\ [][RunNext]_vars

InitEligible == RunInit({<<r>> : r \in EligibleRecords}, Engines)

\* The run loop on one record under every condition list, for every engine.
SpecEligible == InitEligible /\ [][RunNext]_vars

InitVerify == RunInit({<<r>> : r \in VerifyRecords}, {"postgres"})

\* The run loop on one query record, for every answer of the harness.
SpecVerify == InitVerify /\ [][RunNext]_vars

(***************************************************************************)
(* ParseTestFile as a state machine: one step per line the scanner yields, *)
(* and one for the end of the input.                                       *)
(***************************************************************************)
TakeRecord_keepConditions(r, at) ==
    LET resolved == resolveHashThreshold(r, prevRecord)
    IN  /\ prevRecord' = resolved
        /\ records' = Append(records, resolved)
        /\ emittedAt' = Append(emittedAt, at)
        /\ record' = [newRecord EXCEPT !.conditions = r.conditions]
        /\ state' = stateStart
        /\ queryBuilder' = <<>>

\* ParseTestFile takes the record parseRecord returned and calls parseRecord
\* again, which starts from a new record in stateStart.
TakeRecord(r, at) ==
    LET resolved == resolveHashThreshold(r, prevRecord)
    IN  /\ prevRecord' = resolved
        /\ records' = Append(records, resolved)
        /\ emittedAt' = Append(emittedAt, at)
        /\ record' = newRecord
        /\ state' = stateStart
        /\ queryBuilder' = <<>>

\* scanner.Scan() yields a line, one of fileLines: one pass of parseRecord's
\* loop, and ParseTestFile's handling of what parseRecord returns, if it
\* returns.
ScanFrom(fileLines) ==
    /\ ppc = "parsing"
    /\ Len(input) < MaxLines
    /\ \E line \in fileLines :
         LET pass == parseLine(record, state, queryBuilder, line, nextLineNum(LineNum))
         IN  /\ input' = Append(input, line)
             /\ lineState' = Append(lineState, state)
             /\ LineNum' = nextLineNum(LineNum)
             /\ IF pass.ret = "continue"
                THEN /\ record' = pass.record
                     /\ state' = pass.state
                     /\ queryBuilder' = pass.queryBuilder
                     /\ UNCHANGED <<prevRecord, records, emittedAt, parsed, ppc,
                                    parseErr>>
                ELSE IF pass.ret = "record"
                THEN /\ TakeRecord(pass.record, Len(input) + 1)
                     /\ UNCHANGED <<parsed, ppc, parseErr>>
                ELSE /\ ppc' = pass.ret
                     /\ parsed' = <<>>
                     /\ parseErr' = IF pass.ret = "error" THEN pass.err ELSE nilError
                     /\ UNCHANGED <<record, state, queryBuilder, prevRecord,
                                    records, emittedAt>>
    /\ UNCHANGED <<runVars, sortVars>>

\* A line of a file of directives.
ScanLine == ScanFrom(FileLines)

ScanEnd_noEof ==
    /\ ppc = "parsing"
    /\ UNCHANGED vars

\* scanner.Scan() returns false: parseRecord returns the record under way, if
\* a body line of it was read, and the next call returns io.EOF, on which
\* ParseTestFile returns the records.
ScanEnd ==
    /\ ppc = "parsing"
    /\ LET pass == parseEnd(record, state, queryBuilder)
       IN  IF pass.ret = "record"
           THEN /\ TakeRecord(pass.record, Len(input))
                /\ parsed' = Append(records, resolveHashThreshold(pass.record, prevRecord))
           ELSE /\ parsed' = records
                /\ UNCHANGED <<record, state, queryBuilder, prevRecord,
                               records, emittedAt>>
    /\ ppc' = "done"
    /\ UNCHANGED <<input, lineState, LineNum, parseErr>>
    /\ UNCHANGED <<runVars, sortVars>>

ParseNext == ScanLine \/ ScanEnd

InitParse == ParseInit /\ RunIdle /\ SortIdle

\* ParseTestFile on every file of at most MaxLines lines.
SpecParse == InitParse /\ [][ParseNext]_vars

\* The lines of a file of statement and query records with their bodies:
\* blank, the directives, body lines without and with a trailing comment, the
\* separator, and comment lines with '#' in the first column and after a
\* space.
BodyLines ==
    { <<>>,
      <<"statement", " ", "ok">>,
      <<"statement", " ", "error">>,
      <<"query", " ", "I", " ", "nosort">>,
      <<"SELECT">>,
      <<"c", " ", "#", "c">>,
      <<"----">>,
      <<"#", "c">>,
      <<" ", "#", "c">> }

\* A line of a file of records with bodies.
ScanBodyLine == ScanFrom(BodyLines)

BodyNext == ScanBodyLine \/ ScanEnd

\* ParseTestFile on every file of at most MaxLines of these lines.
SpecBody == InitParse /\ [][BodyNext]_vars

\* The lines of a file of records under conditions: blank, skipif and onlyif
\* with an engine, skipif without one, a statement with its body, and halt.
CondLines ==
    { <<>>,
      <<"skipif", " ", "mysql">>,
      <<"onlyif", " ", "oracle">>,
      <<"skipif">>,
      <<"statement", " ", "ok">>,
      <<"SELECT">>,
      <<"halt">> }

\* A line of a file of records under conditions.
ScanCondLine == ScanFrom(CondLines)

CondNext == ScanCondLine \/ ScanEnd

\* ParseTestFile on every file of at most MaxLines of these lines.
SpecCond == InitParse /\ [][CondNext]_vars

\* The same, with the loop of ParseTestFile running on: a call of
\* scanner.Scan() returns, with the next line or with the end of the file.
SpecCondFair == SpecCond /\ WF_vars(CondNext)

\* The lines of a file of queries: blank, the query directive without and
\* with a sort mode, a body line, the separator and a value.
QueryLines ==
    { <<>>,
      <<"query", " ", "I">>,
      <<"query", " ", "I", " ", "rowsort">>,
      <<"SELECT">>,
      <<"----">>,
      <<"1">> }

\* A line of a file of queries.
ScanQueryLine == ScanFrom(QueryLines)

QueryNext == ScanQueryLine \/ ScanEnd

\* ParseTestFile on every file of at most MaxLines of these lines.
SpecQuery == InitParse /\ [][QueryNext]_vars

(***************************************************************************)
(* runTestFile as a whole: ParseTestFile on the file, then the loop over   *)
(* the records it returned, or panic(err) on the error it returned.        *)
(***************************************************************************)
\* The lines of a file of statements: blank, the directive, a body line, the
\* separator and halt.
RunFileLines ==
    { <<>>,
      <<"statement", " ", "ok">>,
      <<"SELECT">>,
      <<"----">>,
      <<"halt">> }

\* A line of the file runTestFile has ParseTestFile read.
ScanRunLine == ScanFrom(RunFileLines)

StartLoop_early ==
    /\ ppc = "parsing"
    /\ records # <<>>
    /\ rpc = "idle"
    /\ testRecords' = records
    /\ rpc' = "loop"
    /\ UNCHANGED <<engine, idx, cont, currRecord, log, calls, answers, eligible,
                   recovered>>
    /\ UNCHANGED <<parseVars, sortVars>>

\* ParseTestFile has returned the records without an error: the loop over
\* them starts.
StartLoop ==
    /\ ppc = "done"
    /\ rpc = "idle"
    /\ testRecords' = parsed
    /\ rpc' = "loop"
    /\ UNCHANGED <<engine, idx, cont, currRecord, log, calls, answers, eligible,
                   recovered>>
    /\ UNCHANGED <<parseVars, sortVars>>

\* ParseTestFile has returned an error, or has faulted: runTestFile panics
\* before its loop.
ParseFailed ==
    /\ ppc \in {"error", "panic"}
    /\ rpc = "idle"
    /\ rpc' = "panic"
    /\ UNCHANGED <<testRecords, engine, idx, cont, currRecord, log, calls,
                   answers, eligible, recovered>>
    /\ UNCHANGED <<parseVars, sortVars>>

FileNext ==
    ScanRunLine \/ ScanEnd \/ StartLoop \/ ParseFailed \/ ExecuteRecord \/ LoopEnd

\* runTestFile on every file of at most MaxLines of these lines.
SpecFile == InitParse /\ [][FileNext]_vars

(***************************************************************************)
(* Record.SortResults, called on a query record with a slice of values.    *)
(***************************************************************************)
\* The values of a result: decimal numbers of one and two digits.
SortValues == {<<"1">>, <<"2">>, <<"3">>, <<"4">>, <<"10">>}

\* Query records of one and two columns under each sort mode, and one whose
\* directive named no sort mode.
SortRecords ==
    {Rec(Query, FALSE, <<>>, s, m, <<>>) :
        s \in {"I", "II"}, m \in {NoSort, Rowsort, ValueSort}}
    \cup {Rec(Query, FALSE, <<>>, "I", "", <<>>)}

SortInit ==
    /\ sortRecord \in SortRecords
    /\ sortValues \in SeqsUpTo(SortValues, MaxValues)
    /\ sortReturned = <<>>
    /\ spc = "call"

\* record.SortResults(results) returns, or panics.
SortCall ==
    /\ spc = "call"
    /\ LET out == SortResults(sortRecord, sortValues)
       IN  /\ spc' = IF out.panic THEN "panic" ELSE "done"
           /\ sortReturned' = IF out.panic THEN <<>> ELSE out.values
    /\ UNCHANGED <<sortRecord, sortValues>>
    /\ UNCHANGED <<runVars, parseVars>>

SortNext == SortCall

InitSort == SortInit /\ RunIdle /\ ParseIdle

\* SortResults on every slice of at most MaxValues values.
SpecSort == InitSort /\ [][SortNext]_vars

(***************************************************************************)
(* Properties of the run loop.                                             *)
(***************************************************************************)
\* The records the loop has taken so far.
Taken == 1..idx

\* The lines logged for record i, and the harness calls made for it.
LogOf(i) == SelectSeq(log, LAMBDA l : l.rec = i)

CallsOf(i) == SelectSeq(calls, LAMBDA c : c.rec = i)

Lines(i) == [k \in 1..Len(LogOf(i)) |-> LogOf(i)[k].line]

Messages(i) == [k \in 1..Len(LogOf(i)) |-> LogOf(i)[k].msg]

\* Record i is a statement or query that is not for the active engine.
Ineligible(i) ==
    /\ testRecords[i].recordType \in {Statement, Query}
    /\ ~ShouldExecuteForEngine(testRecords[i], engine)

\* Record j comes after record i with no halt strictly between them.
DueAfter(i, j) ==
    /\ j \in (i + 1)..Len(testRecords)
    /\ \A k \in (i + 1)..(j - 1) : testRecords[k].recordType # Halt

\* C1: when a statement or query record is not eligible for the active
\* engine, a skip is logged for it and the loop continues: once the run of
\* the file is over, every later record up to the first halt has been taken.
C1_SkipContinues ==
    \A i \in Taken :
        Ineligible(i) =>
            /\ Lines(i) = <<"skipped">>
            /\ rpc = "done" =>
                 \A j \in 1..Len(testRecords) : DueAfter(i, j) => j \in Taken

\* C2: a fault raised by the harness call or by the verification of a record
\* is recovered inside executeRecord, exactly one failure line is logged for
\* that record, and the loop goes on to the next record.
C2_FaultIsolated ==
    /\ \A i \in Taken : answers[i].kind = "panic" => i \in recovered
    /\ \A i \in recovered :
        /\ Lines(i) = <<"not ok">>
        /\ Messages(i) = <<"Caught panic">>
        /\ rpc = "done" => (i = Len(testRecords) \/ i + 1 \in Taken)

\* A fault of the harness call on one record and a fault of the verification
\* on the next, both recovered.
C2_Witness ==
    \E i, j \in recovered :
        /\ j = i + 1
        /\ answers[i].kind = "panic"
        /\ answers[j].kind = "rows"

C4_SkippedNeverRuns ==
    \A i \in Taken :
        Ineligible(i) => CallsOf(i) = <<>> /\ Lines(i) = <<"skipped">>

\* An ineligible query was taken.
C4_Witness ==
    \E i \in Taken : Ineligible(i) /\ testRecords[i].recordType = Query

\* The eligibility rule as the specification words it.
RefEligible(conditions, eng) ==
    IF Len(conditions) = 1 /\ conditions[1].isOnly
    THEN conditions[1].engine = eng
    ELSE ~ \E k \in 1..Len(conditions) :
              conditions[k].isSkip /\ conditions[k].engine = eng

\* C5: ShouldExecuteForEngine is the singleton-only rule, and otherwise true
\* unless some skip condition names the engine; an only condition in a list
\* of two or more has no effect.
C5_Eligibility ==
    \A i \in Taken :
        eligible[i] = RefEligible(testRecords[i].conditions, engine)

\* A record with two conditions, the first an only condition for another
\* engine, was found eligible.
C5_Witness ==
    \E i \in Taken :
        /\ Len(testRecords[i].conditions) = 2
        /\ testRecords[i].conditions[1].isOnly
        /\ testRecords[i].conditions[1].engine # engine
        /\ eligible[i]

OnlyMysqlSkipOracle ==
    <<Condition(TRUE, FALSE, "mysql"), Condition(FALSE, TRUE, "oracle")>>

\* C6 as stated: a record under [only:mysql, skip:oracle] is eligible for
\* every engine, "oracle" included.
C6_AlwaysEligible ==
    \A i \in Taken :
        testRecords[i].conditions = OnlyMysqlSkipOracle => eligible[i]

\* C6, amended: a record under [only:mysql, skip:oracle] is eligible for every
\* engine except "oracle", for which it is not.
C6_EligibleExceptOracle ==
    \A i \in Taken :
        testRecords[i].conditions = OnlyMysqlSkipOracle =>
            eligible[i] = (engine # "oracle")

\* The record was taken by the engine "oracle" and skipped.
C6_Witness ==
    \E i \in Taken :
        /\ testRecords[i].conditions = OnlyMysqlSkipOracle
        /\ engine = "oracle"
        /\ Lines(i) = <<"skipped">>

\* C15: for an eligible statement record the outcome follows from the answer
\* of ExecuteStatement and expectError: a failure when the call fails and no
\* error is expected, a failure when it succeeds and an error is expected,
\* success in the two other cases; in all four the loop goes on to the next
\* record.
C15_StatementOutcome ==
    \A i \in Taken :
        (/\ testRecords[i].recordType = Statement
         /\ eligible[i]
         /\ answers[i].kind \in {"ok", "err"}) =>
            /\ Lines(i) =
                 << IF (answers[i].kind = "err") = testRecords[i].expectError
                    THEN "ok" ELSE "not ok" >>
            /\ i = idx => cont
            /\ rpc = "done" => (i = Len(testRecords) \/ i + 1 \in Taken)

\* A statement that expects an error got none, failed, and the record after
\* it was taken.
C15_Witness ==
    \E i \in Taken :
        /\ testRecords[i].recordType = Statement
        /\ testRecords[i].expectError
        /\ answers[i].kind = "ok"
        /\ Messages(i) = <<"Expected error but didn't get one">>
        /\ i + 1 \in Taken

\* The lines logged for record i are one line, of one of the three outcomes,
\* a failure with its reason.
OneOutcomeLine(i) ==
    /\ Len(LogOf(i)) = 1
    /\ LogOf(i)[1].line \in {"ok", "not ok", "skipped"}
    /\ LogOf(i)[1].line = "not ok" => LogOf(i)[1].msg # ""

\* C16 as stated: each record the loop has taken, of whatever kind, has
\* exactly one outcome line.
C16_OneLinePerRecord == \A i \in Taken : OneOutcomeLine(i)

\* C16, amended: each statement or query record the loop has taken has exactly
\* one outcome line, whatever the harness answered and when a fault was
\* caught; a halt record has none.
C16_OneLinePerStatementOrQuery ==
    \A i \in Taken :
        IF testRecords[i].recordType = Halt
        THEN LogOf(i) = <<>>
        ELSE OneOutcomeLine(i)

\* A query whose fault was caught has its one line, and the halt taken after
\* it has none.
C16_Witness ==
    \E i \in recovered :
        /\ testRecords[i].recordType = Query
        /\ OneOutcomeLine(i)
        /\ i + 1 \in Taken
        /\ testRecords[i + 1].recordType = Halt
        /\ LogOf(i + 1) = <<>>

\* The harness answered the query of record i with a schema and values.
Answered(i) ==
    testRecords[i].recordType = Query /\ answers[i].kind = "rows"

CountDiffers(i) == Len(answers[i].results) # NumResults(testRecords[i])

SchemaAccepted(i) == verifySchema(testRecords[i], answers[i].schema).ok

\* C10 as stated: whenever the number of observed values differs from the
\* expected count the outcome is the incorrect-number-of-results failure,
\* whatever the observed schema.
C10_CountFirst ==
    \A i \in Taken :
        (Answered(i) /\ CountDiffers(i)) =>
            Messages(i) = <<"Incorrect number of results">>

\* C10, amended: the schema check comes first.  A rejected schema gives the
\* schemas-differ failure whatever the count; with the schema accepted, a
\* differing count gives the incorrect-number-of-results failure.
C10_SchemaFirst ==
    \A i \in Taken :
        Answered(i) =>
            /\ ~SchemaAccepted(i) =>
                 (Lines(i) = <<"not ok">> /\ Messages(i) = <<"Schemas differ">>)
            /\ (SchemaAccepted(i) /\ CountDiffers(i)) =>
                 (Lines(i) = <<"not ok">>
                  /\ Messages(i) = <<"Incorrect number of results">>)

\* Both checks would fail for the answer, and the schema failure was logged.
C10_Witness ==
    \E i \in Taken :
        /\ Answered(i)
        /\ CountDiffers(i)
        /\ ~SchemaAccepted(i)
        /\ Messages(i) = <<"Schemas differ">>

\* The schema check as the specification words it, for record r and the
\* observed schema: equal strings, or the exception for an empty result.
RefSchemaAccepts(r, observed) ==
    \/ Bytes(observed) = Bytes(r.schema)
    \/ /\ NumResults(r) = 0
       /\ Len(Bytes(observed)) = Len(Bytes(r.schema))
       /\ \A k \in 1..Len(Bytes(r.schema)) : Bytes(r.schema)[k] = 73
       /\ \A k \in 1..Len(Bytes(observed)) : Bytes(observed)[k] \in {73, 82}

\* C11: the schema check accepts exactly when the observed schema equals the
\* record's, or the record expects no values, the two schemas are as long as
\* each other, the record's is all 'I' and the observed all 'I' or 'R'.  Every
\* other pair logs the schemas-differ failure and nothing else: the results
\* are not compared.
C11_SchemaCheck ==
    \A i \in Taken :
        Answered(i) =>
            IF RefSchemaAccepts(testRecords[i], answers[i].schema)
            THEN /\ Len(LogOf(i)) = 1
                 /\ Messages(i) # <<"Schemas differ">>
            ELSE /\ Lines(i) = <<"not ok">>
                 /\ Messages(i) = <<"Schemas differ">>

\* A record of schema II that expects no values was answered with the schema
\* IR and no values, and passed.
C11_Witness ==
    \E i \in Taken :
        /\ Answered(i)
        /\ testRecords[i].schema = "II"
        /\ answers[i].schema = "IR"
        /\ NumResults(testRecords[i]) = 0
        /\ Lines(i) = <<"ok">>

\* The outcome lines of record i, without the index of the record.
Outcome(i) ==
    [k \in 1..Len(LogOf(i)) |->
        [line |-> LogOf(i)[k].line, msg |-> LogOf(i)[k].msg, pos |-> LogOf(i)[k].pos]]

\* The expected block of r is one entry of the form "<N> values hashing to
\* <hex>".
HashBlock(r) ==
    /\ Len(r.result) = 1
    /\ \E k \in 1..Len(r.result[1]) :
         /\ k + 8 <= Len(r.result[1])
         /\ IsNumber(r.result[1][k])
         /\ SubSeq(r.result[1], k + 1, k + 7)
                = <<" ", "values", " ", "hashing", " ", "to", " ">>
         /\ IsHex(r.result[1][k + 8])

\* C13: whether a query is compared by hash or value by value is read from
\* the record's expected block alone: a hash failure is only ever logged for a
\* hash block and a value failure for a literal one, and the record that
\* differs from the one taken in nothing but its hashThreshold has the same
\* outcome for the same answer, also when the observed values are more than
\* the threshold.
C13_ThresholdIgnored ==
    \A i \in Taken :
        Answered(i) =>
            /\ Messages(i) = <<"Hash of results differ">> => HashBlock(testRecords[i])
            /\ Messages(i) = <<"Incorrect result at position">> =>
                  ~HashBlock(testRecords[i])
            /\ \A h \in {1, defaultHashThreshold} :
                  executeRecord([testRecords[i] EXCEPT !.hashThreshold = h],
                                engine, answers[i]).logs = Outcome(i)

\* A record with a literal block of two values and a hash threshold of 1 was
\* answered with two values and passed.
C13_Witness ==
    \E i \in Taken :
        /\ Answered(i)
        /\ testRecords[i].hashThreshold = 1
        /\ ~HashBlock(testRecords[i])
        /\ Len(answers[i].results) = 2
        /\ Lines(i) = <<"ok">>

\* The positions, counted from 0, at which the sequences a and b of strings
\* of one length differ.
Differences(a, b) == {k \in 0..(Len(a) - 1) : ~StringEq(a[k + 1], b[k + 1])}

\* C14: for a record with a literal block whose schema and count checks have
\* passed, the outcome is ok exactly when the observed values, sorted by the
\* record's sort mode, equal the expected list position by position, and is
\* otherwise the incorrect-result failure at the smallest position at which
\* the two differ.
C14_LiteralCompare ==
    \A i \in Taken :
        (/\ Answered(i)
         /\ SchemaAccepted(i)
         /\ ~CountDiffers(i)
         /\ ~HashBlock(testRecords[i])) =>
            LET sortedValues == SortResults(testRecords[i], answers[i].results).values
                diff == Differences(testRecords[i].result, sortedValues)
            IN  IF diff = {}
                THEN Outcome(i) = <<[line |-> "ok", msg |-> "", pos |-> 0]>>
                ELSE Outcome(i) =
                       <<[line |-> "not ok", msg |-> "Incorrect result at position",
                          pos |-> CHOOSE k \in diff : \A o \in diff : k <= o]>>

\* The sorted values differed from the expected ones at two positions, and
\* the failure was reported at the first of them.
C14_Witness ==
    \E i \in Taken :
        /\ Answered(i)
        /\ ~HashBlock(testRecords[i])
        /\ SchemaAccepted(i)
        /\ ~CountDiffers(i)
        /\ testRecords[i].sortMode = Rowsort
        /\ Differences(testRecords[i].result,
                       SortResults(testRecords[i], answers[i].results).values) = {0, 1}
        /\ Messages(i) = <<"Incorrect result at position">>
        /\ LogOf(i)[1].pos = 0

(***************************************************************************)
(* Properties of the parser.                                               *)
(***************************************************************************)
\* Line i of the input was read in stateStart as a directive with keyword kw.
Directive(i, kw) ==
    /\ lineState[i] = stateStart
    /\ ~isCommentLine(input[i])
    /\ Fields(commentsRemoved(input[i])) # <<>>
    /\ Fields(commentsRemoved(input[i]))[1] = kw

\* The first token of line i of the input.
FirstToken(i) == Fields(commentsRemoved(input[i]))[1]

\* The directive lines with one of the keywords among the first upto lines.
Directives(kws, upto) == {i \in 1..upto : \E kw \in kws : Directive(i, kw)}

StatementsAndQueries == Directives({"statement", "query"}, Len(input))

NonHalt(recs) == {k \in 1..Len(recs) : recs[k].recordType # Halt}

\* The file ends in a statement or query directive with no line after it
\* but pure-comment lines.
EndsInBareDirective ==
    \E d \in StatementsAndQueries :
        \A i \in (d + 1)..Len(input) : isCommentLine(input[i])

ThresholdsBefore(k) == Directives({"hash-threshold"}, emittedAt[k])

Latest(D) == CHOOSE i \in D : \A j \in D : j <= i

\* The integer a hash-threshold directive line carries.
ThresholdOf(i) == Atoi(Bytes(Fields(commentsRemoved(input[i]))[2])).n

C9_ThresholdNonNegative ==
    ppc = "done" => \A k \in 1..Len(parsed) : parsed[k].hashThreshold >= 0
(***************************************************************************)
(* Properties of the bodies of statement and query records.                *)
(***************************************************************************)
\* The first line of the file that belongs to record k, and its last: the
\* line on which it was returned.
FirstLineOf(k) == IF k = 1 THEN 1 ELSE emittedAt[k - 1] + 1

LastLineOf(k) == emittedAt[k]

\* The line of the directive, statement or query, that began record k.
DirectiveOf(k) ==
    CHOOSE d \in FirstLineOf(k)..LastLineOf(k) :
        Directive(d, "statement") \/ Directive(d, "query")

\* Line i is neither blank nor a comment from its first column on.
IsBodyLine(i) == ~isBlankLine(input[i]) /\ ~isCommentLine(input[i])

\* The comment-stripped texts of the body lines among lines lo..hi, joined
\* with nothing between them.
RECURSIVE BodyText(_, _)
BodyText(lo, hi) ==
    IF lo > hi THEN <<>>
    ELSE (IF IsBodyLine(lo) THEN commentsRemoved(input[lo]) ELSE <<>>)
         \o BodyText(lo + 1, hi)

\* The number of the first body line among lines lo..hi, 0 when there is none.
FirstBodyLine(lo, hi) ==
    IF \E i \in lo..hi : IsBodyLine(i)
    THEN CHOOSE i \in lo..hi : IsBodyLine(i) /\ \A j \in lo..(i - 1) : ~IsBodyLine(j)
    ELSE 0

\* Record k ended on the first blank line after line d, or with the input.
EndsAtBlankOrEof(k, d) ==
    /\ \A i \in (d + 1)..(LastLineOf(k) - 1) : ~isBlankLine(input[i])
    /\ \/ isBlankLine(input[LastLineOf(k)])
       \/ ppc = "done" /\ LastLineOf(k) = Len(input)

IsSeparatorLine(i) ==
    ~isCommentLine(input[i]) /\ Fields(commentsRemoved(input[i])) = <<"----">>

\* The separator line of record k, whose directive is on line d: the first
\* such line after d, 0 when the record has none.
SeparatorOf(k, d) ==
    IF \E i \in (d + 1)..LastLineOf(k) : IsSeparatorLine(i)
    THEN CHOOSE i \in (d + 1)..LastLineOf(k) :
            IsSeparatorLine(i) /\ \A j \in (d + 1)..(i - 1) : ~IsSeparatorLine(j)
    ELSE 0

\* The comment-stripped texts of the body lines among lines lo..hi, one entry
\* each, in order.
RECURSIVE Entries(_, _)
Entries(lo, hi) ==
    IF lo > hi THEN <<>>
    ELSE (IF IsBodyLine(lo) THEN <<commentsRemoved(input[lo])>> ELSE <<>>)
         \o Entries(lo + 1, hi)

EndedInBodyOf(d) ==
    /\ ppc = "done"
    /\ Directive(d, "statement") \/ Directive(d, "query")
    /\ \A i \in (d + 1)..Len(input) : ~isBlankLine(input[i])
    /\ \E i \in (d + 1)..Len(input) : IsBodyLine(i)

\* C19: when the input ends inside a statement body, a query body or a
\* results body, the record is returned, last of the file, with all that was
\* read: its text holds every body line (those before the separator, for a
\* query that has one) and its expected list every line after the separator.
C19_EofEmitsBody ==
    \A d \in 1..Len(input) :
        EndedInBodyOf(d) =>
            /\ parsed # <<>>
            /\ LastLineOf(Len(parsed)) = Len(input)
            /\ DirectiveOf(Len(parsed)) = d
            /\ LET k   == Len(parsed)
                   sep == IF Directive(d, "query") THEN SeparatorOf(k, d) ELSE 0
               IN  IF sep = 0
                   THEN parsed[k].query = BodyText(d + 1, Len(input))
                   ELSE /\ parsed[k].query = BodyText(d + 1, sep - 1)
                        /\ parsed[k].result = Entries(sep + 1, Len(input))

\* The first character of the line that is not a space is '#'.
EntirelyComment(line) ==
    \E k \in 1..Len(line) :
        line[k] = "#" /\ \A j \in 1..(k - 1) : line[j] = " "

\* C20: a line that is entirely comment, with or without whitespace before
\* its '#', is dropped in every parser state: reading it raises no error,
\* returns no record and changes neither the record under way, nor the state,
\* nor the text gathered.
C20_CommentLinesDropped ==
    [][(/\ ppc = "parsing"
        /\ Len(input') = Len(input) + 1
        /\ EntirelyComment(input'[Len(input')])) =>
            (/\ ppc' = "parsing"
             /\ records' = records
             /\ record' = record
             /\ state' = state
             /\ queryBuilder' = queryBuilder)]_vars

(***************************************************************************)
(* Properties of the conditions of a record.                               *)
(***************************************************************************)
\* The conditions that the skipif and onlyif directives among lines lo..hi
\* name, in file order.
RECURSIVE ConditionsRead(_, _)
ConditionsRead(lo, hi) ==
    IF lo > hi THEN <<>>
    ELSE (IF Directive(lo, "skipif") \/ Directive(lo, "onlyif")
          THEN << [isOnly |-> FirstToken(lo) = "onlyif",
                   isSkip |-> FirstToken(lo) = "skipif",
                   engine |-> Fields(commentsRemoved(input[lo]))[2]] >>
          ELSE <<>>)
         \o ConditionsRead(lo + 1, hi)

\* C24: the conditions of every record the parser has returned are the
\* skipif and onlyif directives read in stateStart on the lines after the
\* previous record was returned, in file order, each with the engine its line
\* names; and the records ParseTestFile returns are those records.
C24_ConditionsOfRecord ==
    /\ \A k \in 1..Len(records) :
          records[k].conditions = ConditionsRead(FirstLineOf(k), LastLineOf(k))
    /\ ppc = "done" =>
          /\ Len(parsed) = Len(records)
          /\ \A k \in 1..Len(parsed) : parsed[k].conditions = records[k].conditions

\* A statement under a skipif and an onlyif was returned with the two
\* conditions in file order, and the halt after it with none.
C24_Witness ==
    /\ ppc = "done"
    /\ Len(parsed) = 2
    /\ parsed[1].recordType = Statement
    /\ parsed[1].conditions = <<Condition(FALSE, TRUE, "mysql"),
                                Condition(TRUE, FALSE, "oracle")>>
    /\ parsed[2].recordType = Halt
    /\ parsed[2].conditions = <<>>

\* The lines read when the call of parseRecord before the one under way
\* returned.
LastReturnAt == IF emittedAt = <<>> THEN 0 ELSE emittedAt[Len(emittedAt)]

\* Every line read was consumed once, by one call of parseRecord: the scanner
\* has counted each line read once, each call that returned a record or an
\* error had read at least one line more than the call before it, the line a
\* record is numbered by was read by its own call, and a call that starts on
\* the exhausted input returns io.EOF.
Consumes ==
    /\ LineNum = Len(input)
    /\ Len(lineState) = Len(input)
    /\ \A k \in 1..Len(emittedAt) :
          /\ FirstLineOf(k) <= LastLineOf(k)
          /\ LastLineOf(k) <= Len(input)
          /\ records[k].lineNum = 0
               \/ records[k].lineNum \in FirstLineOf(k)..LastLineOf(k)
    /\ ppc \in {"error", "panic"} => LastReturnAt < Len(input)
    /\ parseEnd(newRecord, stateStart, <<>>).ret = "eof"

\* A step reads at most one line, the next of the file, and leaves the lines
\* read before it as they were.
ReadsForward ==
    \/ input' = input
    \/ /\ Len(input') = Len(input) + 1
       /\ SubSeq(input', 1, Len(input)) = input
       /\ LineNum' = LineNum + 1

\* C26: ParseTestFile returns on every finite file: every call of
\* parseRecord that returns a record or an error has consumed at least one
\* line, no line is read twice, a call on the exhausted input returns
\* end-of-input, and the loop is eventually left.
C26_Terminates ==
    /\ []Consumes
    /\ [][ReadsForward]_vars
    /\ <>(ppc # "parsing")

\* ParseTestFile has returned two records from five lines, the second at
\* the end of the input.
C26_Witness ==
    /\ ppc = "done"
    /\ Len(input) = 5
    /\ Len(parsed) = 2
    /\ emittedAt = <<3, 5>>

\* C25: every Query record the parser returns has one of the three sort
\* modes, also when its directive names none, and SortResults on its expected
\* values does not fault.
C25_SortModeValid ==
    \A k \in 1..Len(records) :
        records[k].recordType = Query =>
            /\ records[k].sortMode \in {NoSort, Rowsort, ValueSort}
            /\ ~SortResults(records[k], records[k].result).panic

(***************************************************************************)
(* Properties of runTestFile on a file.                                    *)
(***************************************************************************)
\* Line i was read in stateStart, is neither blank nor a comment, and its
\* first token is none of the directives.
UnhandledAt(i) ==
    /\ lineState[i] = stateStart
    /\ ~isBlankLine(input[i])
    /\ ~isCommentLine(input[i])
    /\ Fields(commentsRemoved(input[i])) # <<>>
    /\ FirstToken(i) \notin {"halt", "skipif", "onlyif", "hash-threshold",
                              "statement", "query"}

\* C21: a line in stateStart whose first token is no directive ends the
\* parse with an error that names the token and the number of the line;
\* ParseTestFile returns that error and no records, and runTestFile executes
\* no record of the file.
C21_UnhandledStatementFatal ==
    \A i \in 1..Len(input) :
        UnhandledAt(i) =>
            /\ i = Len(input)
            /\ ppc = "error"
            /\ parseErr = [msg |-> "Unhandled statement",
                           token |-> FirstToken(i), line |-> i]
            /\ parsed = <<>>
            /\ rpc \in {"idle", "panic"}
            /\ testRecords = <<>>
            /\ idx = 0
            /\ calls = <<>>
            /\ log = <<>>

\* One record was parsed before the bad line 4, and runTestFile has panicked.
C21_Witness ==
    /\ Len(input) = 4
    /\ UnhandledAt(4)
    /\ Len(records) = 1
    /\ parseErr.token = "----"
    /\ rpc = "panic"

RowsOf(vs, w) ==
    [i \in 1..(Len(vs) \div w) |-> [k \in 1..w |-> vs[(i - 1) * w + k]]]

\* Row a does not come after row b: lexicographic, column by column from the
\* left, each column by the order of strings.
RECURSIVE RowLeq(_, _)
RowLeq(a, b) ==
    IF a = <<>> THEN TRUE
    ELSE IF StringLess(a[1], b[1]) THEN TRUE
    ELSE IF StringLess(b[1], a[1]) THEN FALSE
    ELSE RowLeq(Tail(a), Tail(b))

\* How many times x occurs in the sequence q.
Occurrences(q, x) == Cardinality({i \in 1..Len(q) : q[i] = x})

\* out holds the rows of width w of inp, each as often as inp does, in
\* non-decreasing order.
SortedRowsOf(out, inp, w) ==
    /\ Len(out) = Len(inp)
    /\ \A i \in 1..Len(RowsOf(inp, w)) :
          Occurrences(RowsOf(out, w), RowsOf(inp, w)[i])
              = Occurrences(RowsOf(inp, w), RowsOf(inp, w)[i])
    /\ \A i \in 1..(Len(RowsOf(out, w)) - 1) :
          RowLeq(RowsOf(out, w)[i], RowsOf(out, w)[i + 1])

\* C12: SortResults returns the slice unchanged under NoSort; under RowSort
\* the same whole rows of width len(schema), each as often, in non-decreasing
\* lexicographic order of their columns as strings; under ValueSort the same
\* values in non-decreasing order as strings, whatever the rows.
C12_SortResults ==
    spc = "done" =>
        /\ sortRecord.sortMode = NoSort => sortReturned = sortValues
        /\ sortRecord.sortMode = Rowsort =>
              SortedRowsOf(sortReturned, sortValues, Len(Bytes(sortRecord.schema)))
        /\ sortRecord.sortMode = ValueSort =>
              SortedRowsOf(sortReturned, sortValues, 1)

\* The example of the specification: 2, 1, 4, 3 in two columns is returned
\* as it is by RowSort.
C12_Witness ==
    /\ spc = "done"
    /\ sortRecord.sortMode = Rowsort
    /\ sortRecord.schema = "II"
    /\ sortValues = << <<"2">>, <<"1">>, <<"4">>, <<"3">> >>
    /\ sortReturned = sortValues

(***************************************************************************)
(* Properties of the hash comparison.                                      *)
(***************************************************************************)
\* The permutations of the indices 1..n.
IndexPermutations(n) == {p \in [1..n -> 1..n] : \A k \in 1..n : \E j \in 1..n : p[j] = k}

\* The arrangements of the values vs in which its whole rows of width w are
\* permuted; values past the last whole row stay where they are.
RowPermutations(vs, w) ==
    {[k \in 1..Len(vs) |->
        IF k > (Len(vs) \div w) * w THEN vs[k]
        ELSE vs[(p[((k - 1) \div w) + 1] - 1) * w + ((k - 1) % w) + 1]] :
            p \in IndexPermutations(Len(vs) \div w)}

\* The arrangements of the observed values that the sort mode of r makes
\* the same: every order of the values under ValueSort, every order of the
\* whole rows under RowSort, the one observed under NoSort.
Normalized(r, vs) ==
    IF r.sortMode = ValueSort THEN RowPermutations(vs, 1)
    ELSE IF r.sortMode = Rowsort THEN RowPermutations(vs, Len(Bytes(r.schema)))
    ELSE {vs}

\* The slice vs is in the order the sort mode of r asks for.
InSortOrder(r, vs) ==
    IF r.sortMode = ValueSort THEN SortedRowsOf(vs, vs, 1)
    ELSE IF r.sortMode = Rowsort THEN SortedRowsOf(vs, vs, Len(Bytes(r.schema)))
    ELSE TRUE

\* Record i is compared by hash: a query with a hash block whose schema and
\* count checks have passed.
HashCompared(i) ==
    /\ Answered(i)
    /\ HashBlock(testRecords[i])
    /\ testRecords[i].sortMode \in {NoSort, Rowsort, ValueSort}
    /\ SchemaAccepted(i)
    /\ ~CountDiffers(i)

\* C23: for a record compared by hash the outcome is ok exactly when the
\* expected digest is the digest of the observed values in the order of the
\* record's sort mode, and the hash failure otherwise; and the outcome is the
\* same for every arrangement of the observed values that the sort mode
\* normalizes: every order of the values under ValueSort, every order of the
\* whole rows under RowSort, the sorted order included.
C23_HashOfSorted ==
    \A i \in Taken :
        HashCompared(i) =>
            /\ Len(LogOf(i)) = 1
            /\ IF \E s \in Normalized(testRecords[i], answers[i].results) :
                     /\ InSortOrder(testRecords[i], s)
                     /\ StrBytes(HashResult(testRecords[i])) = Bytes(hashResults(s))
               THEN Lines(i) = <<"ok">>
               ELSE Messages(i) = <<"Hash of results differ">>
            /\ \A s \in Normalized(testRecords[i], answers[i].results) :
                  executeRecord(testRecords[i], engine,
                                [answers[i] EXCEPT !.results = s]).logs = Outcome(i)

\* A record of two columns under RowSort that expects the digest of the rows
\* (1, 2), (2, 1) was answered with the rows (2, 1), (1, 2) and passed.
C23_Witness ==
    \E i \in Taken :
        /\ HashCompared(i)
        /\ testRecords[i].sortMode = Rowsort
        /\ testRecords[i].schema = "II"
        /\ testRecords[i].result = <<HashOf1221>>
        /\ answers[i].results = << <<"2">>, <<"1">>, <<"1">>, <<"2">> >>
        /\ Lines(i) = <<"ok">>
====
